---- MODULE Spec2Model ----
(***************************************************************************)
(* Github-random: the language catalog loader, the repository search       *)
(* client and the random selector of src/services/githubService.ts, and    *)
(* the Hero component of src/components/Hero.tsx that drives them.          *)
(*                                                                         *)
(* Four specifications:                                                    *)
(*   LoaderSpec  loadLanguages alone, against every modelled response;     *)
(*   SearchSpec  searchRepositories and getRandomRepository, against every *)
(*               modelled response and random value;                       *)
(*   Spec        the whole service under arbitrary callers: loads,         *)
(*               searches and picks interleave at their await points,      *)
(*               against a fixed set of canned responses;                  *)
(*   HeroSpec    one session of the Hero component (mount, language        *)
(*               change, search button), against the canned responses.     *)
(***************************************************************************)
EXTENDS Integers, Sequences, FiniteSets

VARIABLES
    AVAILABLE_LANGUAGES, \* the exported catalog object (githubService.ts:14)
    load,                \* the loadLanguages invocation in flight
    loadLog,             \* history: how the last loadLanguages call ended, once it has
    loadCalls,           \* history: number of loadLanguages calls so far
    search,              \* the searchRepositories invocations, by invocation id
    picked,              \* history: the last getRandomRepository call on each result
    mounted,             \* Hero: the mount effect has run
    language,            \* Hero: useState('javascript')
    repo,                \* Hero: useState<Repository | null>(null)
    loading,             \* Hero: useState(false)
    languagesLoaded,     \* Hero: useState(false)
    options,             \* Hero: the <option> keys of the last render
    handler              \* Hero: position of each handleSearch invocation, by the
                         \* id of the searchRepositories invocation it awaits

loaderVars == <<AVAILABLE_LANGUAGES, load, loadLog, loadCalls>>
serviceVars == <<AVAILABLE_LANGUAGES, load, loadLog, loadCalls, search, picked>>
heroVars == <<mounted, language, repo, loading, languagesLoaded, options, handler>>
vars == <<AVAILABLE_LANGUAGES, load, loadLog, loadCalls, search, picked,
          mounted, language, repo, loading, languagesLoaded, options, handler>>

----------------------------------------------------------------------------
(* Bounds of the model.                                                    *)

MaxEntries == 2        \* longest languages.json list the environment serves
MaxItems == 2          \* longest `items` list the search API answers with
MaxLoads == 2          \* loadLanguages calls a client of the service makes
RandomDenominator == 4 \* Math.random() yields k / RandomDenominator, 0 <= k < it

----------------------------------------------------------------------------
(* JavaScript values.                                                      *)

\* null and undefined where an object is expected.
JsNull == [jstype |-> "null"]
JsUndefined == [jstype |-> "undefined"]

\* null where a string is declared: a token outside Text.
NullText == "#null"

\* The strings the modelled responses carry.
Text == {"", "react", "notes", "https://github.com/facebook/react",
         "https://github.com/o/notes", "A UI library", "JavaScript", "Python"}

RECURSIVE SeqsUpTo(_, _)
SeqsUpTo(S, n) ==
    IF n = 0 THEN {<<>>}
    ELSE LET shorter == SeqsUpTo(S, n - 1)
         IN shorter \cup {Append(q, e) : q \in {p \in shorter : Len(p) = n - 1}, e \in S}

----------------------------------------------------------------------------
(* A JavaScript object with string keys: its own properties in creation    *)
(* order.  Enumeration (Object.entries) lists the keys that are canonical  *)
(* array indices first, in ascending numeric order, then the other string  *)
(* keys in creation order.                                                 *)

EmptyObject == <<>>

HasProperty(obj, k) == \E i \in 1..Len(obj) : obj[i].key = k

GetProperty(obj, k) ==
    LET i == CHOOSE j \in 1..Len(obj) : obj[j].key = k IN obj[i].val

\* acc[k] = v : an existing property keeps its place, a new one is created last.
SetProperty(obj, k, v) ==
    IF HasProperty(obj, k)
    THEN [i \in 1..Len(obj) |-> IF obj[i].key = k THEN [key |-> k, val |-> v] ELSE obj[i]]
    ELSE Append(obj, [key |-> k, val |-> v])

\* The array index a property key denotes, -1 when it is no array index.
ArrayIndexOf(k) ==
    CASE k = "2" -> 2
      [] k = "10" -> 10
      [] OTHER -> -1

IsArrayIndex(k) == ArrayIndexOf(k) >= 0

RECURSIVE SelectSeq2(_, _)
SelectSeq2(s, keep) ==
    IF s = <<>> THEN <<>>
    ELSE IF Head(s).key \in keep
         THEN <<Head(s)>> \o SelectSeq2(Tail(s), keep)
         ELSE SelectSeq2(Tail(s), keep)

RECURSIVE AscendingIndexProps(_, _)
AscendingIndexProps(obj, ks) ==
    IF ks = {} THEN <<>>
    ELSE LET least == CHOOSE k \in ks : \A o \in ks : ArrayIndexOf(k) <= ArrayIndexOf(o)
         IN <<[key |-> least, val |-> GetProperty(obj, least)]>>
            \o AscendingIndexProps(obj, ks \ {least})

OwnKeys(obj) == {obj[i].key : i \in 1..Len(obj)}

\* Object.entries(obj): [key, value] pairs in the own-property-keys order.
ObjectEntries(obj) ==
    AscendingIndexProps(obj, {k \in OwnKeys(obj) : IsArrayIndex(k)})
    \o SelectSeq2(obj, {k \in OwnKeys(obj) : ~IsArrayIndex(k)})

----------------------------------------------------------------------------
(* loadLanguages (githubService.ts:16-29).                                 *)

\* The {title, value} entries languages.json may hold; null is a malformed one.
Entries ==
    { [value |-> "javascript", title |-> "JavaScript"],
      [value |-> "python", title |-> "Python"],
      [value |-> "python", title |-> "Py"],
      [value |-> "2", title |-> "Two"],
      [value |-> "10", title |-> "Ten"],
      JsNull }

IsNullEntry(item) == item = JsNull

\* The bodies a response to fetch('/languages.json') may carry.
LanguageBodies ==
    { [kind |-> "invalid", list |-> <<>>],      \* not JSON: response.json() rejects
      [kind |-> "object", list |-> <<>>] }      \* JSON, but not an array
    \cup { [kind |-> "array", list |-> l] : l \in SeqsUpTo(Entries, MaxEntries) }

\* data.reduce((acc, item) => { acc[item.value] = item.title; return acc }, acc)
\* reading a property of null throws: threw is TRUE and acc is what was built so far.
RECURSIVE reduce(_, _)
reduce(data, acc) ==
    IF data = <<>> THEN [threw |-> FALSE, acc |-> acc]
    ELSE IF IsNullEntry(Head(data)) THEN [threw |-> TRUE, acc |-> acc]
    ELSE reduce(Tail(data), SetProperty(acc, Head(data).value, Head(data).title))

\* The responses the interleaved specifications serve: the two-entry catalog,
\* a list with a null entry, and a body that is not JSON.
CannedLanguageBodies ==
    { [kind |-> "array", list |-> << [value |-> "javascript", title |-> "JavaScript"],
                                     [value |-> "python", title |-> "Python"] >>],
      [kind |-> "array", list |-> << [value |-> "python", title |-> "Python"], JsNull >>],
      [kind |-> "invalid", list |-> <<>>] }

\* Whether lines 20-25 throw on a received body.
LoadBodyThrows(body) ==
    \/ body.kind # "array"
    \/ reduce(body.list, EmptyObject).threw

\* Faulty variant: the accumulator is the live catalog, written as the reduction goes.
CatalogAfterBodyInPlace(cat, body) ==
    IF body.kind # "array" THEN cat ELSE reduce(body.list, cat).acc

\* Faulty variant: the reduction starts from the previous catalog instead of {}.
CatalogAfterBodyMerged(cat, body) ==
    IF LoadBodyThrows(body) THEN cat ELSE reduce(body.list, cat).acc

\* AVAILABLE_LANGUAGES after lines 20-25 ran on a body: assigned only when the
\* whole right-hand side evaluated.
CatalogAfterBody(cat, body) ==
    IF LoadBodyThrows(body) THEN cat ELSE reduce(body.list, EmptyObject).acc

LoadIdle == [pc |-> "idle", body |-> [kind |-> "invalid", list |-> <<>>], before |-> EmptyObject]

\* No invocation has completed since the last call.
NoLoadLog ==
    [outcome |-> "none", cause |-> "", promise |-> "none",
     body |-> LoadIdle.body, before |-> EmptyObject]

\* The call: runs up to `await fetch('/languages.json')`.
loadLanguages_call ==
    /\ load.pc = "idle"
    /\ load' = [pc |-> "fetch", body |-> LoadIdle.body, before |-> AVAILABLE_LANGUAGES]
    /\ loadLog' = NoLoadLog
    /\ loadCalls' = loadCalls + 1
    /\ UNCHANGED <<AVAILABLE_LANGUAGES, search, picked>>

\* The end of an invocation through the catch block: the error is logged, the
\* promise is fulfilled.
LoadCaught(cause, body) ==
    /\ load' = LoadIdle
    /\ loadLog' = [outcome |-> "failed", cause |-> cause, promise |-> "fulfilled",
                   body |-> body, before |-> load.before]

\* fetch rejects (the resource is unreachable).
loadLanguages_fetchRejects ==
    /\ load.pc = "fetch"
    /\ LoadCaught("unreachable", LoadIdle.body)
    /\ UNCHANGED <<AVAILABLE_LANGUAGES, loadCalls, search, picked>>

\* fetch resolves with a response: !response.ok throws, else await response.json().
loadLanguages_fetchResolves(bodies) ==
    /\ load.pc = "fetch"
    /\ \E ok \in BOOLEAN, body \in bodies :
          IF ok
          THEN /\ load' = [load EXCEPT !.pc = "json", !.body = body]
               /\ UNCHANGED loadLog
          ELSE LoadCaught("status", body)
    /\ UNCHANGED <<AVAILABLE_LANGUAGES, loadCalls, search, picked>>

\* response.json() settles; on a parsed body the reduce and the assignment run.
loadLanguages_jsonSettles ==
    /\ load.pc = "json"
    /\ AVAILABLE_LANGUAGES' = CatalogAfterBody(AVAILABLE_LANGUAGES, load.body)
    /\ IF LoadBodyThrows(load.body)
       THEN LoadCaught("malformed", load.body)
       ELSE /\ load' = LoadIdle
            /\ loadLog' = [outcome |-> "ok", cause |-> "", promise |-> "fulfilled",
                           body |-> load.body, before |-> load.before]
    /\ UNCHANGED <<loadCalls, search, picked>>


----------------------------------------------------------------------------
(* searchRepositories (githubService.ts:36-69).                            *)

DefaultPerPage == 10

\* Items of the search API's answer: more fields than a Repository has, and a
\* description that may be null.
ReactItem ==
    [id |-> 1, name |-> "react", full_name |-> "facebook/react",
     html_url |-> "https://github.com/facebook/react",
     description |-> "A UI library", stargazers_count |-> 200,
     language |-> "JavaScript", forks_count |-> 40]

NotesItem ==
    [id |-> 2, name |-> "notes", full_name |-> "o/notes",
     html_url |-> "https://github.com/o/notes",
     description |-> NullText, stargazers_count |-> 7,
     language |-> "Python", forks_count |-> 3]

Items == {ReactItem, NotesItem}

\* The bodies a response of the search endpoint may carry.
SearchBodies ==
    { [kind |-> "invalid", items |-> <<>>],     \* not JSON: response.json() rejects
      [kind |-> "noitems", items |-> <<>>] }    \* JSON without an `items` list
    \cup { [kind |-> "items", items |-> l] : l \in SeqsUpTo(Items, MaxItems) }

\* The responses the interleaved specifications serve: two results, no result,
\* and an answer without `items`.
CannedSearchBodies ==
    { [kind |-> "items", items |-> <<ReactItem, NotesItem>>],
      [kind |-> "items", items |-> <<>>],
      [kind |-> "noitems", items |-> <<>>] }

\* The arrow function of lines 60-68.
MapItem(item) ==
    [id |-> item.id, name |-> item.name, html_url |-> item.html_url,
     description |-> item.description, stars |-> item.stargazers_count,
     language |-> item.language, forks_count |-> item.forks_count]

\* Faulty variant: Array.prototype.filter-like mapping that drops repeated items.
RECURSIVE MapItemsDeduplicated(_)
MapItemsDeduplicated(items) ==
    IF items = <<>> THEN <<>>
    ELSE LET front == SubSeq(items, 1, Len(items) - 1)
             last == items[Len(items)]
         IN IF \E i \in 1..Len(front) : front[i].id = last.id
            THEN MapItemsDeduplicated(front)
            ELSE Append(MapItemsDeduplicated(front), MapItem(last))

\* data.items.map(...)
MapItems(items) == [i \in 1..Len(items) |-> MapItem(items[i])]

SearchIds == {1, 2}

NoRequest == [q |-> "", per_page |-> 0]
NoResponse == [received |-> FALSE, ok |-> FALSE, body |-> [kind |-> "invalid", items |-> <<>>]]
NotPicked == [called |-> FALSE, index |-> 0, value |-> JsUndefined, thrown |-> ""]

SearchIdle ==
    [pc |-> "idle", request |-> NoRequest, response |-> NoResponse, parsed |-> FALSE,
     settled |-> "none", value |-> <<>>, error |-> ""]

\* Faulty variant: the status check of line 52 is missing.
StatusThrowsNever(response) == FALSE

\* Line 52: if(!response.ok) throw new Error('Error fetching repositories').
StatusThrows(response) == ~response.ok

\* The call: builds the query and runs up to `await fetch(...)`.
searchRepositories_call(s, lang) ==
    /\ search[s].pc \in {"idle", "done"}
    /\ search' = [search EXCEPT ![s] =
           [SearchIdle EXCEPT !.pc = "fetch", !.settled = "pending",
                              !.request = [q |-> lang, per_page |-> DefaultPerPage]]]
    /\ picked' = [picked EXCEPT ![s] = NotPicked]
    /\ UNCHANGED loaderVars

\* fetch rejects (transport failure): the promise of the search is rejected.
searchRepositories_fetchRejects(s) ==
    /\ search[s].pc = "fetch"
    /\ search' = [search EXCEPT ![s].pc = "done", ![s].settled = "rejected",
                                ![s].error = "fetch failed"]
    /\ UNCHANGED picked
    /\ UNCHANGED loaderVars

\* fetch resolves with a response: line 52 throws, or response.json() is awaited.
searchRepositories_fetchResolves(s, bodies) ==
    /\ search[s].pc = "fetch"
    /\ \E ok \in BOOLEAN, body \in bodies :
          LET response == [received |-> TRUE, ok |-> ok, body |-> body]
          IN IF StatusThrows(response)
             THEN search' = [search EXCEPT ![s].pc = "done", ![s].response = response,
                                 ![s].settled = "rejected",
                                 ![s].error = "Error fetching repositories"]
             ELSE search' = [search EXCEPT ![s].pc = "json", ![s].response = response,
                                 ![s].parsed = TRUE]
    /\ UNCHANGED picked
    /\ UNCHANGED loaderVars

\* Faulty variant: the mapping also registers each result's language in the catalog.
searchRepositories_jsonSettlesRegistering(s) ==
    /\ search[s].pc = "json"
    /\ LET body == search[s].response.body
       IN CASE body.kind = "invalid" ->
                 /\ search' = [search EXCEPT ![s].pc = "done", ![s].settled = "rejected",
                                             ![s].error = "SyntaxError"]
                 /\ UNCHANGED AVAILABLE_LANGUAGES
            [] body.kind = "noitems" ->
                 /\ search' = [search EXCEPT ![s].pc = "done", ![s].settled = "rejected",
                                             ![s].error = "TypeError"]
                 /\ UNCHANGED AVAILABLE_LANGUAGES
            [] OTHER ->
                 /\ search' = [search EXCEPT ![s].pc = "done", ![s].settled = "fulfilled",
                                             ![s].value = MapItems(body.items)]
                 /\ AVAILABLE_LANGUAGES' =
                        IF body.items = <<>> THEN AVAILABLE_LANGUAGES
                        ELSE SetProperty(AVAILABLE_LANGUAGES, body.items[1].language,
                                         body.items[1].language)
    /\ UNCHANGED <<picked, load, loadLog, loadCalls>>

\* response.json() settles; on a parsed body data.items.map(...) runs.
searchRepositories_jsonSettles(s) ==
    /\ search[s].pc = "json"
    /\ LET body == search[s].response.body
       IN CASE body.kind = "invalid" ->
                 search' = [search EXCEPT ![s].pc = "done", ![s].settled = "rejected",
                                          ![s].error = "SyntaxError"]
            [] body.kind = "noitems" ->
                 search' = [search EXCEPT ![s].pc = "done", ![s].settled = "rejected",
                                          ![s].error = "TypeError"]
            [] OTHER ->
                 search' = [search EXCEPT ![s].pc = "done", ![s].settled = "fulfilled",
                                          ![s].value = MapItems(body.items)]
    /\ UNCHANGED picked
    /\ UNCHANGED loaderVars

----------------------------------------------------------------------------
(* getRandomRepository (githubService.ts:75-82).                           *)

\* The values Math.random() yields are rnd / RandomDenominator, in [0, 1).
RandomNumerators == 0..(RandomDenominator - 1)

\* Faulty variant: Math.round instead of Math.floor.
RandomIndexRounded(rnd, length) ==
    (2 * rnd * length + RandomDenominator) \div (2 * RandomDenominator)

\* Math.floor(Math.random() * repos.length)
RandomIndex(rnd, length) == (rnd * length) \div RandomDenominator

\* repos[index], zero-based: undefined outside 0..length-1.
ElementAt(repos, index) ==
    IF index + 1 \in 1..Len(repos) THEN repos[index + 1] ELSE JsUndefined

getRandomRepository(repos, rnd) == ElementAt(repos, RandomIndex(rnd, Len(repos)))

\* The record of a call getRandomRepository(repos) that drew rnd: the function
\* has no throw statement, it returns whatever repos[index] is.
PickOf(repos, rnd) ==
    [called |-> TRUE, index |-> RandomIndex(rnd, Len(repos)),
     value |-> getRandomRepository(repos, rnd), thrown |-> ""]

\* A caller applies getRandomRepository to the list a search returned.
getRandomRepository_call(s) ==
    /\ search[s].pc = "done"
    /\ search[s].settled = "fulfilled"
    /\ \E rnd \in RandomNumerators :
          picked' = [picked EXCEPT ![s] = PickOf(search[s].value, rnd)]
    /\ UNCHANGED search
    /\ UNCHANGED loaderVars

----------------------------------------------------------------------------
(* The service under arbitrary callers.                                    *)

Languages == {"javascript", "python"}

InitService ==
    /\ AVAILABLE_LANGUAGES = EmptyObject
    /\ load = LoadIdle
    /\ loadLog = NoLoadLog
    /\ loadCalls = 0
    /\ search = [s \in SearchIds |-> SearchIdle]
    /\ picked = [s \in SearchIds |-> NotPicked]

InitHero ==
    /\ mounted = FALSE
    /\ language = "javascript"
    /\ repo = JsNull
    /\ loading = FALSE
    /\ languagesLoaded = FALSE
    /\ options = <<>>
    /\ handler = [s \in SearchIds |-> "idle"]

Init == InitService /\ InitHero

ClientLoad ==
    /\ loadCalls < MaxLoads
    /\ loadLanguages_call
    /\ UNCHANGED heroVars

LoadFetchRejects ==
    loadLanguages_fetchRejects /\ UNCHANGED heroVars

LoadFetchResolves(bodies) ==
    loadLanguages_fetchResolves(bodies) /\ UNCHANGED heroVars

LoadJsonSettles ==
    loadLanguages_jsonSettles /\ UNCHANGED heroVars

ClientSearch(s) ==
    /\ \E lang \in Languages : searchRepositories_call(s, lang)
    /\ UNCHANGED heroVars

SearchFetchRejects(s) ==
    searchRepositories_fetchRejects(s) /\ UNCHANGED heroVars

SearchFetchResolves(s, bodies) ==
    searchRepositories_fetchResolves(s, bodies) /\ UNCHANGED heroVars

SearchJsonSettles(s) ==
    searchRepositories_jsonSettles(s) /\ UNCHANGED heroVars

ClientPick(s) ==
    getRandomRepository_call(s) /\ UNCHANGED heroVars

LoaderNext ==
    \/ ClientLoad
    \/ LoadFetchRejects
    \/ LoadFetchResolves(LanguageBodies)
    \/ LoadJsonSettles

LoaderSpec == Init /\ [][LoaderNext]_vars

SearchNext ==
    \/ \E s \in SearchIds : ClientSearch(s)
    \/ \E s \in SearchIds : SearchFetchRejects(s)
    \/ \E s \in SearchIds : SearchFetchResolves(s, SearchBodies)
    \/ \E s \in SearchIds : SearchJsonSettles(s)
    \/ \E s \in SearchIds : ClientPick(s)

SearchSpec == Init /\ [][SearchNext]_vars

Next ==
    \/ ClientLoad
    \/ LoadFetchRejects
    \/ LoadFetchResolves(CannedLanguageBodies)
    \/ LoadJsonSettles
    \/ \E s \in SearchIds : ClientSearch(s)
    \/ \E s \in SearchIds : SearchFetchRejects(s)
    \/ \E s \in SearchIds : SearchFetchResolves(s, CannedSearchBodies)
    \/ \E s \in SearchIds : SearchJsonSettles(s)
    \/ \E s \in SearchIds : ClientPick(s)

Spec == Init /\ [][Next]_vars

----------------------------------------------------------------------------
(* The Hero component (Hero.tsx:20-156).                                   *)

\* Lines 99-107: one <option> per entry of Object.entries(AVAILABLE_LANGUAGES).
RenderedOptions(cat) ==
    LET entries == ObjectEntries(cat) IN [i \in 1..Len(entries) |-> entries[i].key]

\* Lines 43-48: the first render, then the mount effect calls loadLanguages().
Mount ==
    /\ ~mounted
    /\ mounted' = TRUE
    /\ options' = RenderedOptions(AVAILABLE_LANGUAGES)
    /\ loadLanguages_call
    /\ UNCHANGED <<language, repo, loading, languagesLoaded, handler>>

\* Faulty variant: a failed load is tried again before the controls are enabled.
LanguagesLoadedThenRetrying ==
    /\ mounted
    /\ ~languagesLoaded
    /\ load.pc = "idle"
    /\ loadLog.promise = "fulfilled"
    /\ IF loadLog.outcome = "failed"
       THEN loadLanguages_call /\ UNCHANGED <<languagesLoaded, options>>
       ELSE /\ languagesLoaded' = TRUE
            /\ options' = RenderedOptions(AVAILABLE_LANGUAGES)
            /\ UNCHANGED serviceVars
    /\ UNCHANGED <<mounted, language, repo, loading, handler>>

\* Line 47: .then(() => setLanguagesLoaded(true)), once the load's promise is
\* fulfilled; the state change renders the component again.
LanguagesLoadedThen ==
    /\ mounted
    /\ ~languagesLoaded
    /\ load.pc = "idle"
    /\ loadLog.promise = "fulfilled"
    /\ languagesLoaded' = TRUE
    /\ options' = RenderedOptions(AVAILABLE_LANGUAGES)
    /\ UNCHANGED serviceVars
    /\ UNCHANGED <<mounted, language, repo, loading, handler>>

\* Lines 89-93: the select, disabled until languagesLoaded, sets the language
\* to one of the rendered options.
SelectLanguage ==
    /\ languagesLoaded
    /\ \E i \in 1..Len(options) : language' = options[i]
    /\ options' = RenderedOptions(AVAILABLE_LANGUAGES)
    /\ UNCHANGED serviceVars
    /\ UNCHANGED <<mounted, repo, loading, languagesLoaded, handler>>

\* Faulty variant: the button is disabled only until the languages are loaded.
ButtonDisabledUntilLoaded == ~languagesLoaded

\* Line 116: disabled={loading || !languagesLoaded}.
ButtonDisabled == loading \/ ~languagesLoaded

\* Lines 51-57 and 116: a click on the enabled button starts a handleSearch
\* invocation, which runs up to `await searchRepositories(language)`.
HandleSearch ==
    /\ mounted
    /\ ~ButtonDisabled
    /\ \E s \in SearchIds :
          /\ handler[s] = "idle"
          /\ handler' = [handler EXCEPT ![s] = "awaiting"]
          /\ searchRepositories_call(s, language)
    /\ loading' = TRUE
    /\ options' = RenderedOptions(AVAILABLE_LANGUAGES)
    /\ UNCHANGED <<mounted, language, repo, languagesLoaded>>

\* Faulty variant: setLoading(false) is the last statement of the try block,
\* not a finally block.
HandleSearchSettledNoFinally(s) ==
    /\ handler[s] = "awaiting"
    /\ search[s].pc = "done"
    /\ IF search[s].settled = "fulfilled"
       THEN /\ \E rnd \in RandomNumerators :
                  /\ picked' = [picked EXCEPT ![s] = PickOf(search[s].value, rnd)]
                  /\ repo' = getRandomRepository(search[s].value, rnd)
            /\ loading' = FALSE
       ELSE UNCHANGED <<picked, repo, loading>>
    /\ handler' = [handler EXCEPT ![s] = "idle"]
    /\ options' = RenderedOptions(AVAILABLE_LANGUAGES)
    /\ UNCHANGED <<search, mounted, language, languagesLoaded>>
    /\ UNCHANGED loaderVars

\* Lines 57-72: the awaited search settled. Fulfilled: a random record is
\* picked and shown; rejected: the error is logged. Finally loading is reset.
HandleSearchSettled(s) ==
    /\ handler[s] = "awaiting"
    /\ search[s].pc = "done"
    /\ IF search[s].settled = "fulfilled"
       THEN \E rnd \in RandomNumerators :
               /\ picked' = [picked EXCEPT ![s] = PickOf(search[s].value, rnd)]
               /\ repo' = getRandomRepository(search[s].value, rnd)
       ELSE UNCHANGED <<picked, repo>>
    /\ loading' = FALSE
    /\ handler' = [handler EXCEPT ![s] = "idle"]
    /\ options' = RenderedOptions(AVAILABLE_LANGUAGES)
    /\ UNCHANGED <<search, mounted, language, languagesLoaded>>
    /\ UNCHANGED loaderVars

HeroNext ==
    \/ Mount
    \/ LoadFetchRejects
    \/ LoadFetchResolves(CannedLanguageBodies)
    \/ LoadJsonSettles
    \/ LanguagesLoadedThen
    \/ SelectLanguage
    \/ HandleSearch
    \/ \E s \in SearchIds : SearchFetchRejects(s)
    \/ \E s \in SearchIds : SearchFetchResolves(s, CannedSearchBodies)
    \/ \E s \in SearchIds : SearchJsonSettles(s)
    \/ \E s \in SearchIds : HandleSearchSettled(s)

HeroSpec == Init /\ [][HeroNext]_vars

\* The fetch of a search settles, one way or the other.
SearchFetchSettles(s) ==
    SearchFetchRejects(s) \/ SearchFetchResolves(s, CannedSearchBodies)

\* The session under the scheduling of the event loop: a pending fetch and a
\* pending response.json() settle, and the continuation of a settled await runs.
HeroFairSpec ==
    /\ HeroSpec
    /\ \A s \in SearchIds :
          /\ WF_vars(SearchFetchSettles(s))
          /\ WF_vars(SearchJsonSettles(s))
          /\ WF_vars(HandleSearchSettled(s))

----------------------------------------------------------------------------
(* Properties.                                                             *)

RepositoryFields ==
    {"id", "name", "html_url", "description", "stars", "language", "forks_count"}

\* The items of the response a search invocation received.
ReceivedItems(s) == search[s].response.body.items

\* C1: a successful response with N items yields exactly N records, in the
\* order of the items, the i-th record carrying the i-th item's id, name,
\* html_url, description, language and forks_count and, as stars, its
\* stargazers_count.
C1_RecordsMirrorItems ==
    \A s \in SearchIds :
        search[s].settled = "fulfilled" =>
            /\ Len(search[s].value) = Len(ReceivedItems(s))
            /\ \A i \in 1..Len(ReceivedItems(s)) :
                  LET r == search[s].value[i]
                      item == ReceivedItems(s)[i]
                  IN /\ DOMAIN r = RepositoryFields
                     /\ r.id = item.id
                     /\ r.name = item.name
                     /\ r.html_url = item.html_url
                     /\ r.description = item.description
                     /\ r.language = item.language
                     /\ r.forks_count = item.forks_count
                     /\ r.stars = item.stargazers_count

\* A response that repeats an item and one whose items are not sorted by stars
\* were both mapped.
C1_Witness ==
    /\ search[1].settled = "fulfilled"
    /\ ReceivedItems(1) = <<ReactItem, ReactItem>>
    /\ search[2].settled = "fulfilled"
    /\ ReceivedItems(2) = <<NotesItem, ReactItem>>

\* C2: a response with a non-success status rejects the search with the fetch
\* error; its body is never parsed and no record is returned.
C2_NonSuccessRejects ==
    \A s \in SearchIds :
        (search[s].response.received /\ ~search[s].response.ok) =>
            /\ search[s].pc = "done"
            /\ search[s].settled = "rejected"
            /\ search[s].error = "Error fetching repositories"
            /\ ~search[s].parsed
            /\ search[s].value = <<>>

\* A non-success response whose body holds two well-formed items was received.
C2_Witness ==
    \E s \in SearchIds :
        /\ search[s].response.received
        /\ ~search[s].response.ok
        /\ search[s].response.body.kind = "items"
        /\ Len(ReceivedItems(s)) = 2

\* C3: on a non-empty list, for every random value in [0, 1), the computed
\* index is within 0..length-1 and the returned value is the element at that
\* index, hence a member of the list; a list of one element yields it.
C3_PickIsMember ==
    \A s \in SearchIds :
        (picked[s].called /\ Len(search[s].value) > 0) =>
            /\ picked[s].index \in 0..(Len(search[s].value) - 1)
            /\ \E i \in 1..Len(search[s].value) : picked[s].value = search[s].value[i]
            /\ Len(search[s].value) = 1 => picked[s].value = search[s].value[1]

\* The last element of a two-element list was picked, and the only element of
\* a one-element list.
C3_Witness ==
    /\ picked[1].called
    /\ Len(search[1].value) = 2
    /\ picked[1].index = 1
    /\ picked[2].called
    /\ Len(search[2].value) = 1

\* C4: a loadLanguages that failed (unreachable resource, non-success status,
\* malformed content) fulfilled its promise and left AVAILABLE_LANGUAGES as
\* it was before the call.
C4_FailedLoadKeepsCatalog ==
    loadLog.outcome = "failed" =>
        /\ loadLog.promise = "fulfilled"
        /\ AVAILABLE_LANGUAGES = loadLog.before

\* A load failed on the null second entry of a list, after an earlier load had
\* filled the catalog.
C4_Witness ==
    /\ loadLog.outcome = "failed"
    /\ loadLog.cause = "malformed"
    /\ loadLog.body.kind = "array"
    /\ Len(loadLog.body.list) = 2
    /\ loadLog.body.list[1] # JsNull
    /\ loadLog.before # EmptyObject

\* The identifiers of a fetched list.
Identifiers(list) == {list[i].value : i \in 1..Len(list)}

\* The identifiers of a list in the order of their first occurrence.
RECURSIVE FirstOccurrences(_)
FirstOccurrences(list) ==
    IF list = <<>> THEN <<>>
    ELSE LET front == SubSeq(list, 1, Len(list) - 1)
             last == list[Len(list)]
         IN IF last.value \in Identifiers(front)
            THEN FirstOccurrences(front)
            ELSE Append(FirstOccurrences(front), last.value)

\* The label the fetched list gives an identifier last.
LastLabel(list, k) ==
    LET last == CHOOSE i \in 1..Len(list) :
                    /\ list[i].value = k
                    /\ \A j \in (i + 1)..Len(list) : list[j].value # k
    IN list[last].title

\* The catalog holds one property per identifier of the list, with its label,
\* and nothing else.
IsMappingOf(cat, list) ==
    /\ OwnKeys(cat) = Identifiers(list)
    /\ Len(cat) = Cardinality(Identifiers(list))
    /\ \A k \in Identifiers(list) : GetProperty(cat, k) = LastLabel(list, k)

\* The catalog is the object that loading the list into an empty catalog
\* creates: the mapping of the list, its properties created in the order in
\* which the list first names them.
IsLoadOf(cat, list) ==
    /\ IsMappingOf(cat, list)
    /\ [i \in 1..Len(cat) |-> cat[i].key] = FirstOccurrences(list)

\* C5: after a successful loadLanguages the catalog is exactly the
\* identifier->label mapping of the fetched list, whatever it held before; and
\* when the catalog already was what a load of that list creates, the load
\* left it equal to what it was.
C5_LoadReplacesCatalog ==
    loadLog.outcome = "ok" =>
        /\ IsMappingOf(AVAILABLE_LANGUAGES, loadLog.body.list)
        /\ IsLoadOf(loadLog.before, loadLog.body.list) =>
               AVAILABLE_LANGUAGES = loadLog.before

\* A successful load replaced a catalog that held an identifier the new list
\* does not have.
C5_Witness ==
    /\ loadLog.outcome = "ok"
    /\ \E k \in OwnKeys(loadLog.before) : k \notin OwnKeys(AVAILABLE_LANGUAGES)

\* C6: every field of every returned record holds a value of its declared
\* type; a description is a text value, never null.
C6_RecordsWellTyped ==
    \A s \in SearchIds :
        search[s].settled = "fulfilled" =>
            \A i \in 1..Len(search[s].value) :
                LET r == search[s].value[i]
                IN /\ r.id \in Nat
                   /\ r.stars \in Nat
                   /\ r.forks_count \in Nat
                   /\ r.name \in Text
                   /\ r.html_url \in Text
                   /\ r.language \in Text
                   /\ r.description \in Text

\* C7: getRandomRepository fails with EmptySelection on an empty list and
\* otherwise returns one of the records; it never returns undefined.
C7_PickIsTotal ==
    \A s \in SearchIds :
        picked[s].called =>
            IF search[s].value = <<>>
            THEN picked[s].thrown = "EmptySelection"
            ELSE /\ picked[s].thrown = ""
                 /\ picked[s].value # JsUndefined

\* C8: the options enumerated from the loaded catalog are the identifiers of
\* the source list in the order of their first occurrence, one per identifier.
C8_OptionsInSourceOrder ==
    loadLog.outcome = "ok" =>
        RenderedOptions(AVAILABLE_LANGUAGES) = FirstOccurrences(loadLog.body.list)

\* C9: a step of a search or of a pick changes neither the catalog nor the
\* loader, nor the state of any other invocation; the catalog changes only in
\* the step that ends a loadLanguages.
C9_SearchesLeaveCatalog ==
    [][/\ (search' # search \/ picked' # picked) =>
             /\ AVAILABLE_LANGUAGES' = AVAILABLE_LANGUAGES
             /\ load' = load
             /\ loadLog' = loadLog
       /\ \A s \in SearchIds :
             (search'[s] # search[s] \/ picked'[s] # picked[s]) =>
                 \A t \in SearchIds \ {s} :
                     search'[t] = search[t] /\ picked'[t] = picked[t]
       /\ AVAILABLE_LANGUAGES' # AVAILABLE_LANGUAGES =>
             load.pc = "json" /\ load'.pc = "idle"]_vars

\* With a loaded catalog and a second load in flight, one search returned
\* records of which one was picked, and the other failed on a response
\* without `items`.
C9_Witness ==
    /\ AVAILABLE_LANGUAGES # EmptyObject
    /\ load.pc = "json"
    /\ search[1].settled = "fulfilled"
    /\ Len(search[1].value) = 2
    /\ picked[1].called
    /\ search[2].settled = "rejected"
    /\ search[2].error = "TypeError"

\* C10: a session calls loadLanguages once, on mount; after a failed load the
\* catalog and the rendered options stay empty.
C10_LoadOnceNoRetry ==
    /\ loadCalls = (IF mounted THEN 1 ELSE 0)
    /\ loadLog.outcome = "failed" =>
          /\ AVAILABLE_LANGUAGES = EmptyObject
          /\ options = <<>>

\* After a failed load the controls were enabled and a search showed a
\* repository.
C10_Witness ==
    /\ loadLog.outcome = "failed"
    /\ languagesLoaded
    /\ handler = [s \in SearchIds |-> "idle"]
    /\ \E s \in SearchIds : search[s].settled = "fulfilled"
    /\ repo \in {MapItem(item) : item \in Items}

\* The handleSearch invocations between their start and their completion.
InFlight == {s \in SearchIds : handler[s] = "awaiting"}

\* C11: at most one handleSearch invocation is in flight; loading is true
\* exactly while one is; the button is disabled whenever loading is true or
\* the languages are not loaded; an invocation starts only when none is in
\* flight, and the displayed repository changes only in the step that
\* completes the one invocation in flight.
C11_OneSearchInFlight ==
    /\ [](/\ Cardinality(InFlight) <= 1
          /\ loading <=> InFlight # {}
          /\ (loading \/ ~languagesLoaded) => ~ENABLED HandleSearch
          /\ \A s \in SearchIds : search[s].pc \in {"fetch", "json"} => s \in InFlight)
    /\ [][/\ (\E s \in SearchIds : handler[s] = "idle" /\ handler'[s] = "awaiting") =>
                InFlight = {} /\ ~loading /\ languagesLoaded
          /\ repo' # repo =>
                \E s \in SearchIds :
                    InFlight = {s} /\ handler'[s] = "idle" /\ search[s].pc = "done"]_vars

\* A second search is in flight after a first one settled and showed a
\* repository.
C11_Witness ==
    /\ loading
    /\ handler[1] = "idle"
    /\ search[1].settled = "fulfilled"
    /\ handler[2] = "awaiting"
    /\ search[2].pc = "json"
    /\ repo \in {MapItem(item) : item \in Items}

\* C12: the step that completes a handleSearch invocation resets loading,
\* whether the search was fulfilled or rejected (non-success status, transport
\* failure, unparsable body, body without `items`), and after a rejected
\* search it leaves the displayed repository as it was; once loading is true
\* it eventually is false again, which enables the button.
C12_FailureKeepsRepoResetsLoading ==
    /\ [][\A s \in SearchIds :
             (handler[s] = "awaiting" /\ handler'[s] = "idle") =>
                 /\ loading' = FALSE
                 /\ ~ButtonDisabled'
                 /\ search[s].settled = "rejected" => repo' = repo]_vars
    /\ [](\A s \in SearchIds :
             (search[s].pc = "done" /\ handler[s] = "awaiting") => ENABLED HandleSearchSettled(s))
    /\ (loading ~> ~loading)

\* After a search that showed a repository, one search failed on each cause;
\* the repository is still shown and the button is enabled again.
C12_Witness ==
    /\ ~loading
    /\ handler = [s \in SearchIds |-> "idle"]
    /\ search[1].settled = "rejected"
    /\ search[1].error = "Error fetching repositories"
    /\ search[2].settled = "rejected"
    /\ search[2].error = "TypeError"
    /\ repo \in {MapItem(item) : item \in Items}

====
